---------------------------- MODULE Spec2Model ----------------------------
(***************************************************************************)
(* A model of manage_step_seq.py: the registry that maps sequence keys to  *)
(* sorted lists of step names, kept in one JSON document.                  *)
(*                                                                         *)
(* Text is modelled as a sequence of one-character strings, so that the    *)
(* canonicalisers (normalize_step_name, canonicalize_sequence) are         *)
(* computed character by character as the code computes them.              *)
(***************************************************************************)
EXTENDS Naturals, Sequences, FiniteSets

\* ------------------------------------------------------------------ text

\* F applied to the value of v.  TLC passes an operator's arguments by name;
\* Bind computes v once, whatever use F makes of it.
Bind(v, F(_)) == CHOOSE y \in { F(x) : x \in { v } } : TRUE

LowerSeq ==
    << "a", "b", "c", "d", "e", "f", "g", "h", "i", "j", "k", "l", "m",
       "n", "o", "p", "q", "r", "s", "t", "u", "v", "w", "x", "y", "z" >>

UpperSeq ==
    << "A", "B", "C", "D", "E", "F", "G", "H", "I", "J", "K", "L", "M",
       "N", "O", "P", "Q", "R", "S", "T", "U", "V", "W", "X", "Y", "Z" >>

DigitSeq == << "0", "1", "2", "3", "4", "5", "6", "7", "8", "9" >>

\* The characters of the model in code-point order (str comparison in
\* list.sort() is by code point): \t < space < ! < , < . < 0-9 < A-Z < _ < a-z.
CodePoints ==
    << "\t", " ", "!", ",", "." >> \o DigitSeq \o UpperSeq \o << "_" >> \o LowerSeq

Range(f) == { f[i] : i \in DOMAIN f }

Lower == Range(LowerSeq)

Upper == Range(UpperSeq)

Digit == Range(DigitSeq)

\* str.isspace() over the model's characters
Space == { " ", "\t" }

Ord == [ c \in Range(CodePoints) |-> CHOOSE i \in DOMAIN CodePoints : CodePoints[i] = c ]

ToUpperChar ==
    [ c \in Range(CodePoints) |->
        IF c \in Lower
        THEN UpperSeq[CHOOSE i \in DOMAIN LowerSeq : LowerSeq[i] = c]
        ELSE c ]

ToLowerChar ==
    [ c \in Range(CodePoints) |->
        IF c \in Upper
        THEN LowerSeq[CHOOSE i \in DOMAIN UpperSeq : UpperSeq[i] = c]
        ELSE c ]

MinOf(S) == CHOOSE x \in S : \A y \in S : x <= y

MaxOf(S) == CHOOSE x \in S : \A y \in S : y <= x

\* str.upper()
StrUpper(str) == Bind(str, LAMBDA s : [ i \in DOMAIN s |-> ToUpperChar[s[i]] ])

\* str.lower()
StrLower(str) == Bind(str, LAMBDA s : [ i \in DOMAIN s |-> ToLowerChar[s[i]] ])

\* a < b on str: by code point at the first difference, else by length
StrLess(a, b) ==
    Bind({ i \in DOMAIN a \cap DOMAIN b : a[i] # b[i] },
         LAMBDA diff :
            IF diff = { } THEN Len(a) < Len(b)
            ELSE Ord[a[MinOf(diff)]] < Ord[b[MinOf(diff)]])

\* The maximal runs of characters outside seps, in order: str.split() for
\* seps = whitespace, and re.split(r"[,\s]+", s) with its empty pieces
\* dropped (the `if t.strip()` filter) for seps = whitespace and comma.
SplitRuns(str, seps) ==
    Bind(str, LAMBDA s :
      Bind({ i \in DOMAIN s : s[i] \notin seps /\ (i = 1 \/ s[i - 1] \in seps) },
           LAMBDA starts :
             [ k \in 1 .. Cardinality(starts) |->
                 Bind(CHOOSE i \in starts : Cardinality({ j \in starts : j < i }) = k - 1,
                      LAMBDA i :
                        SubSeq(s, i,
                               MinOf({ j \in i .. Len(s) :
                                         j = Len(s) \/ s[j + 1] \in seps }))) ]))

\* sep.join(parts)
RECURSIVE Join(_, _)
Join(parts, sep) ==
    IF parts = << >> THEN << >>
    ELSE IF Len(parts) = 1 THEN parts[1]
    ELSE parts[1] \o sep \o Join(Tail(parts), sep)

\* str.strip()
Strip(str) ==
    Bind(str, LAMBDA s :
      Bind({ i \in DOMAIN s : s[i] \notin Space },
           LAMBDA keep :
             IF keep = { } THEN << >> ELSE SubSeq(s, MinOf(keep), MaxOf(keep))))

\* x in lst
InList(x, lst) == \E i \in DOMAIN lst : lst[i] = x

\* [s for s in lst if s != x]
Without(lst, x) == SelectSeq(lst, LAMBDA s : s # x)

\* [new if s == old else s for s in lst]
Substitute(lst, old, new) == [ i \in DOMAIN lst |-> IF lst[i] = old THEN new ELSE lst[i] ]

\* A faulty Sort: the list stays as it is
Unsorted(lst) == lst

\* list.sort() on a list of str: stable, so the element at place k is the one
\* with k - 1 elements before it in the order (ties by position)
Sort(lst) ==
    Bind(lst, LAMBDA l :
      [ k \in DOMAIN l |->
          l[CHOOSE i \in DOMAIN l :
              Cardinality({ j \in DOMAIN l :
                              \/ StrLess(l[j], l[i])
                              \/ l[j] = l[i] /\ j < i }) = k - 1] ])

\* ------------------------------------------- validation & canonicalization

VERSION == 1

ALLOWED_TOKENS ==
    { << "U", "P" >>, << "D", "O", "W", "N" >>, << "L", "E", "F", "T" >>,
      << "R", "I", "G", "H", "T" >>, << "E", "N", "T", "E", "R" >>,
      << "O", "K" >>, << "E", "S", "C" >>, << "B", "A", "C", "K" >>,
      << "T", "A", "B" >>, << "S", "P", "A", "C", "E" >>,
      << "W", "A", "I", "T" >>, << "W", "A", "I", "T", "1" >>,
      << "W", "A", "I", "T", "2" >>, << "W", "A", "I", "T", "3" >>,
      << "W", "A", "I", "T", "5" >>, << "W", "A", "I", "T", "1", "0" >> }

\* _STEP_NAME_RE.fullmatch(s): ^[a-z0-9]+(?: [a-z0-9]+)*$
StepNameRe(s) ==
    /\ s # << >>
    /\ \A i \in DOMAIN s : s[i] \in Lower \cup Digit \cup { " " }
    /\ s[1] # " "
    /\ s[Len(s)] # " "
    /\ \A i \in 1 .. Len(s) - 1 : ~(s[i] = " " /\ s[i + 1] = " ")

\* The message normalize_step_name chooses for a raw name the pattern rejects
StepNameError(raw) ==
    LET has_upper == \E i \in DOMAIN raw : raw[i] \in Upper
        has_forbidden ==
            \E i \in DOMAIN raw : raw[i] \notin Lower \cup Digit \cup Space
    IN  IF has_upper /\ has_forbidden THEN "upper_and_punctuation"
        ELSE IF has_upper THEN "upper"
        ELSE IF has_forbidden THEN "punctuation"
        ELSE "invalid"

\* A faulty normalize_step_name: the name is checked with its spaces
\* collapsed and returned with the spaces it came with
normalize_step_name_spaced(raw_name) ==
    Bind(raw_name, LAMBDA raw :
      Bind(Join(SplitRuns(Strip(raw), Space), << " " >>),
           LAMBDA s :
             IF s = << >> THEN [ ok |-> FALSE, val |-> << >>, err |-> "empty" ]
             ELSE IF ~StepNameRe(s)
             THEN [ ok |-> FALSE, val |-> << >>, err |-> StepNameError(raw) ]
             ELSE [ ok |-> TRUE, val |-> Strip(raw), err |-> "" ]))

\* normalize_step_name(raw): [ok, val] on success, [ok = FALSE, err] when the
\* code raises ValueError.
normalize_step_name(raw_name) ==
    Bind(raw_name, LAMBDA raw :
      Bind(Join(SplitRuns(Strip(raw), Space), << " " >>),
           LAMBDA s :
             IF s = << >> THEN [ ok |-> FALSE, val |-> << >>, err |-> "empty" ]
             ELSE IF ~StepNameRe(s)
             THEN [ ok |-> FALSE, val |-> << >>, err |-> StepNameError(raw) ]
             ELSE [ ok |-> TRUE, val |-> s, err |-> "" ]))

\* A faulty canonicalize_sequence: only a comma separates tokens
canonicalize_commas(seq_str) ==
    Bind(SplitRuns(seq_str, { "," }),
         LAMBDA pieces :
           Bind([ i \in DOMAIN pieces |-> StrUpper(Strip(pieces[i])) ],
                LAMBDA tokens :
                  IF tokens = << >>
                  THEN [ ok |-> FALSE, val |-> << >>, err |-> "empty" ]
                  ELSE IF \E i \in DOMAIN tokens : tokens[i] \notin ALLOWED_TOKENS
                  THEN [ ok |-> FALSE, val |-> << >>, err |-> "unknown" ]
                  ELSE [ ok |-> TRUE, val |-> Join(tokens, << "," >>), err |-> "" ]))

\* canonicalize_sequence(seq_str): [ok, val] on success, [ok = FALSE, err]
\* when the code raises ValueError.
canonicalize_sequence(seq_str) ==
    Bind(SplitRuns(seq_str, Space \cup { "," }),
         LAMBDA pieces :
           Bind([ i \in DOMAIN pieces |-> StrUpper(Strip(pieces[i])) ],
                LAMBDA tokens :
                  IF tokens = << >>
                  THEN [ ok |-> FALSE, val |-> << >>, err |-> "empty" ]
                  ELSE IF /\ ALLOWED_TOKENS # { }
                          /\ \E i \in DOMAIN tokens : tokens[i] \notin ALLOWED_TOKENS
                  THEN [ ok |-> FALSE, val |-> << >>, err |-> "unknown" ]
                  ELSE [ ok |-> TRUE, val |-> Join(tokens, << "," >>), err |-> "" ]))

\* ------------------------------------------------------------ collaborators

\* input(): the next line of the collaborator's answers; with none left the
\* code dies of EOFError.  A prompt result is [eof, val, rest].
Eof == [ eof |-> TRUE, val |-> << >>, rest |-> << >> ]

Got(val, rest) == [ eof |-> FALSE, val |-> val, rest |-> rest ]

\* prompt_valid_step_name / prompt_step: ask until a line normalizes
RECURSIVE prompt_valid_step_name(_)
prompt_valid_step_name(script) ==
    IF script = << >> THEN Eof
    ELSE Bind(normalize_step_name(Strip(Head(script))),
              LAMBDA r : IF r.ok THEN Got(r.val, Tail(script))
                         ELSE prompt_valid_step_name(Tail(script)))

\* prompt_sequence: ask until a line canonicalizes
RECURSIVE prompt_sequence(_)
prompt_sequence(script) ==
    IF script = << >> THEN Eof
    ELSE Bind(canonicalize_sequence(Strip(Head(script))),
              LAMBDA r : IF r.ok THEN Got(r.val, Tail(script))
                         ELSE prompt_sequence(Tail(script)))

\* confirm(prompt, default_no=True): val is the Boolean answer
confirm(script) ==
    IF script = << >> THEN [ eof |-> TRUE, val |-> FALSE, rest |-> << >> ]
    ELSE Bind(StrLower(Strip(Head(script))),
              LAMBDA ans :
                Got(IF ans = << >> THEN FALSE
                    ELSE ans \in { << "y" >>, << "y", "e", "s" >> },
                    Tail(script)))

\* ------------------------------------------------------------- IO helpers

\* A document is [version, map]; map is a function from sequence keys to
\* lists of step names.  The storage path holds << >> (no file) or << doc >>.
EmptyMap == [ k \in { } |-> << >> ]

EmptyDoc == [ version |-> VERSION, map |-> EmptyMap ]

\* load_db(path)
load_db(file) == IF file = << >> THEN EmptyDoc ELSE file[1]

\* dict[k] = v
MapSet(m, k, v) == [ x \in DOMAIN m \cup { k } |-> IF x = k THEN v ELSE m[x] ]

\* del dict[k]
MapDel(m, k) == [ x \in DOMAIN m \ { k } |-> m[x] ]

StepsOf(m) == UNION { Range(m[k]) : k \in DOMAIN m }

\* A faulty build_reverse_cache: a step under two sequences goes unnoticed
build_reverse_cache_lax(db) ==
    [ ok |-> TRUE,
      rev |-> [ s \in StepsOf(db.map) |-> CHOOSE k \in DOMAIN db.map : InList(s, db.map[k]) ] ]

\* build_reverse_cache(db): ok = FALSE when the code raises ValueError
\* ("Inconsistent JSON"); otherwise rev maps each step to its sequence.
build_reverse_cache(db) ==
    Bind(db.map, LAMBDA m :
      IF \E k1, k2 \in DOMAIN m : k1 # k2 /\ Range(m[k1]) \cap Range(m[k2]) # { }
      THEN [ ok |-> FALSE, rev |-> << >> ]
      ELSE [ ok |-> TRUE,
             rev |-> [ s \in StepsOf(m) |-> CHOOSE k \in DOMAIN m : InList(s, m[k]) ] ])

\* ------------------------------------------------------------- operations

\* What an operation did: the document it holds at its end, whether it
\* reached atomic_save with it, how it ended, and the answers it left unread.
Result(db, wrote, out, rest) ==
    [ doc |-> db, wrote |-> wrote, out |-> out, rest |-> rest ]

\* lst = db["map"].setdefault(seq, []); if step not in lst: append, sort
InsertStep(db, seq, step) ==
    Bind(IF seq \in DOMAIN db.map THEN db.map ELSE MapSet(db.map, seq, << >>),
         LAMBDA m :
           [ db EXCEPT !.map =
               IF InList(step, m[seq]) THEN m
               ELSE MapSet(m, seq, Sort(Append(m[seq], step))) ])

\* A faulty AskNewName: takes the first valid name, in a sequence or not
AskNewNameAny(script, rev) == prompt_valid_step_name(script)

\* op_add's loop: ask for a new step name until one is in no sequence
RECURSIVE AskNewName(_, _)
AskNewName(script, rev) ==
    Bind(prompt_valid_step_name(script),
         LAMBDA p : IF p.eof THEN p
                    ELSE IF p.val \in DOMAIN rev THEN AskNewName(p.rest, rev)
                    ELSE p)

\* A faulty AddName: inserts the step whatever sequence it is under
AddNameSilent(step, seq, rev, script) == Got(step, script)

\* op_add's choice of the name to insert: the step itself, or, when the step
\* is under another sequence, a new name from the collaborator
AddName(step, seq, rev, script) ==
    IF step \in DOMAIN rev /\ rev[step] # << >> /\ rev[step] # seq
    THEN AskNewName(script, rev)
    ELSE Got(step, script)

\* A faulty AddStep: no check that the step is already under the sequence
AddStepAgain(db, rev, step, line, rest) ==
    Bind(canonicalize_sequence(Strip(line)),
         LAMBDA cs :
           IF ~cs.ok THEN Result(db, FALSE, "bad_sequence", rest)
           ELSE Bind(AddName(step, cs.val, rev, rest),
                     LAMBDA nm :
                       IF nm.eof THEN Result(db, FALSE, "eof", << >>)
                       ELSE Result(InsertStep(db, cs.val, nm.val), TRUE, "added",
                                   nm.rest)))

\* A faulty AddStep: the sequence is used as typed, never validated
AddStepUnchecked(db, rev, step, line, rest) ==
    Result(InsertStep(db, StrUpper(Strip(line)), step), TRUE, "added", rest)

\* op_add after its two prompts: step is the name given, line the sequence
AddStep(db, rev, step, line, rest) ==
    Bind(canonicalize_sequence(Strip(line)),
         LAMBDA cs :
           IF ~cs.ok THEN Result(db, FALSE, "bad_sequence", rest)
           ELSE IF step \in DOMAIN rev /\ rev[step] = cs.val
           THEN Result(db, FALSE, "noop", rest)
           ELSE Bind(AddName(step, cs.val, rev, rest),
                     LAMBDA nm :
                       IF nm.eof THEN Result(db, FALSE, "eof", << >>)
                       ELSE Result(InsertStep(db, cs.val, nm.val), TRUE, "added",
                                   nm.rest)))

op_add(db, script) ==
    Bind(build_reverse_cache(db), LAMBDA rc :
      IF ~rc.ok THEN Result(db, FALSE, "inconsistent", script)
      ELSE Bind(prompt_valid_step_name(script), LAMBDA p :
             IF p.eof \/ p.rest = << >> THEN Result(db, FALSE, "eof", << >>)
             ELSE AddStep(db, rc.rev, p.val, Head(p.rest), Tail(p.rest))))

\* A step argument or, without one (or an invalid one), a prompted step
ResolveStep(arg, script) ==
    Bind(normalize_step_name(arg),
         LAMBDA r : IF arg = << >> \/ ~r.ok THEN prompt_valid_step_name(script)
                    ELSE Got(r.val, script))

\* A sequence argument or, without one (or an invalid one), a prompted one
ResolveSeq(arg, script) ==
    Bind(canonicalize_sequence(arg),
         LAMBDA r : IF arg = << >> \/ ~r.ok THEN prompt_sequence(script)
                    ELSE Got(r.val, script))

\* A faulty FindStep: a step in no sequence is given up at once
FindStepOnce(first, rev) ==
    [ eof |-> first.eof, found |-> ~first.eof /\ first.val \in DOMAIN rev,
      val |-> first.val, rest |-> first.rest ]

\* "not found, let's enter it again": one more prompt when the step is in no
\* sequence; found tells whether the step finally is in one
FindStep(first, rev) ==
    Bind(first, LAMBDA p :
      IF p.eof \/ p.val \in DOMAIN rev
      THEN [ eof |-> p.eof, found |-> ~p.eof, val |-> p.val, rest |-> p.rest ]
      ELSE Bind(prompt_valid_step_name(p.rest), LAMBDA q :
             [ eof |-> q.eof, found |-> ~q.eof /\ q.val \in DOMAIN rev,
               val |-> q.val, rest |-> q.rest ]))

\* A faulty MoveStep: the step stays in the old list
MoveStepKeep(db, step, old_seq, new_seq) == InsertStep(db, new_seq, step)

\* A faulty MoveStep: an emptied old sequence is deleted at once
MoveStepDrop(db, step, old_seq, new_seq) ==
    InsertStep([ db EXCEPT !.map =
                   IF Without(db.map[old_seq], step) = << >> THEN MapDel(db.map, old_seq)
                   ELSE MapSet(db.map, old_seq, Without(db.map[old_seq], step)) ],
               new_seq, step)

\* the move of op_reassign
MoveStep(db, step, old_seq, new_seq) ==
    InsertStep([ db EXCEPT !.map = MapSet(db.map, old_seq, Without(db.map[old_seq], step)) ],
               new_seq, step)

op_reassign(db, step, new_seq_raw, script) ==
    Bind(build_reverse_cache(db), LAMBDA rc :
      IF ~rc.ok THEN Result(db, FALSE, "inconsistent", script)
      ELSE Bind(FindStep(ResolveStep(step, script), rc.rev), LAMBDA f :
             IF f.eof THEN Result(db, FALSE, "eof", << >>)
             ELSE IF ~f.found THEN Result(db, FALSE, "not_found", f.rest)
             ELSE Bind(ResolveSeq(new_seq_raw, f.rest), LAMBDA sq :
                    IF sq.eof THEN Result(db, FALSE, "eof", << >>)
                    ELSE IF rc.rev[f.val] = sq.val
                    THEN Result(db, FALSE, "noop", sq.rest)
                    ELSE Result(MoveStep(db, f.val, rc.rev[f.val], sq.val), TRUE,
                                "reassigned", sq.rest))))

\* A faulty FreeName: a name is taken as free without a look at the index
FreeNameLax(first, rev) ==
    [ eof |-> first.eof, free |-> ~first.eof, val |-> first.val, rest |-> first.rest ]

\* "already exists, choose another": one more prompt when the new name is in
\* a sequence; free tells whether the name finally is in none
FreeName(first, rev) ==
    Bind(first, LAMBDA p :
      IF p.eof \/ p.val \notin DOMAIN rev
      THEN [ eof |-> p.eof, free |-> ~p.eof, val |-> p.val, rest |-> p.rest ]
      ELSE Bind(prompt_valid_step_name(p.rest), LAMBDA q :
             [ eof |-> q.eof, free |-> ~q.eof /\ q.val \notin DOMAIN rev,
               val |-> q.val, rest |-> q.rest ]))

\* A faulty RenameStep: the old name stays next to the new one
RenameStepKeepOld(db, seq, old_n, new_n) ==
    [ db EXCEPT !.map = MapSet(db.map, seq, Sort(Append(db.map[seq], new_n))) ]

\* the substitution of op_rename
RenameStep(db, seq, old_n, new_n) ==
    [ db EXCEPT !.map = MapSet(db.map, seq, Sort(Substitute(db.map[seq], old_n, new_n))) ]

op_rename(db, old, new, script) ==
    Bind(build_reverse_cache(db), LAMBDA rc :
      IF ~rc.ok THEN Result(db, FALSE, "inconsistent", script)
      ELSE Bind(FindStep(ResolveStep(old, script), rc.rev), LAMBDA f :
             IF f.eof THEN Result(db, FALSE, "eof", << >>)
             ELSE IF ~f.found THEN Result(db, FALSE, "not_found", f.rest)
             ELSE Bind(FreeName(ResolveStep(new, f.rest), rc.rev), LAMBDA n :
                    IF n.eof THEN Result(db, FALSE, "eof", << >>)
                    ELSE IF ~n.free THEN Result(db, FALSE, "collision", n.rest)
                    ELSE Result(RenameStep(db, rc.rev[f.val], f.val, n.val), TRUE,
                                "renamed", n.rest))))

\* A faulty RemoveStep: an emptied sequence always goes with its last step
RemoveStepAndKey(db, seq, step, drop) ==
    Bind(Without(db.map[seq], step), LAMBDA lst :
      [ db EXCEPT !.map = IF lst = << >> THEN MapDel(db.map, seq) ELSE MapSet(db.map, seq, lst) ])

\* the removal of op_remove; drop tells whether an emptied sequence goes too
RemoveStep(db, seq, step, drop) ==
    Bind(Without(db.map[seq], step), LAMBDA lst :
      [ db EXCEPT !.map =
          IF lst = << >> /\ drop THEN MapDel(db.map, seq)
          ELSE MapSet(db.map, seq, lst) ])

\* op_remove once the step is found under seq: the two confirmations, each
\* asked only without --yes, the second only when the list becomes empty
ConfirmRemove(db, seq, step, assume_yes, script) ==
    Bind(IF assume_yes THEN Got(TRUE, script) ELSE confirm(script), LAMBDA c1 :
      IF c1.eof THEN Result(db, FALSE, "eof", << >>)
      ELSE IF ~c1.val THEN Result(db, FALSE, "cancelled", c1.rest)
      ELSE Bind(IF assume_yes \/ Without(db.map[seq], step) # << >>
                THEN Got(assume_yes, c1.rest)
                ELSE confirm(c1.rest),
                LAMBDA c2 :
                  IF c2.eof THEN Result(db, FALSE, "eof", << >>)
                  ELSE Result(RemoveStep(db, seq, step, c2.val), TRUE, "removed",
                              c2.rest)))

op_remove(db, step, assume_yes, script) ==
    Bind(build_reverse_cache(db), LAMBDA rc :
      IF ~rc.ok THEN Result(db, FALSE, "inconsistent", script)
      ELSE Bind(normalize_step_name(step), LAMBDA r :
             IF ~r.ok THEN Result(db, FALSE, "bad_step", script)
             ELSE IF r.val \notin DOMAIN rc.rev \/ rc.rev[r.val] = << >>
             THEN Result(db, FALSE, "not_found", script)
             ELSE ConfirmRemove(db, rc.rev[r.val], r.val, assume_yes, script)))

op_list(db) == Result(db, FALSE, "listed", << >>)

op_show(db, query) ==
    Bind(Strip(query), LAMBDA q :
      IF canonicalize_sequence(q).ok THEN Result(db, FALSE, "shown_sequence", << >>)
      ELSE IF ~normalize_step_name(q).ok THEN Result(db, FALSE, "bad_step", << >>)
      ELSE IF ~build_reverse_cache(db).ok THEN Result(db, FALSE, "inconsistent", << >>)
      ELSE Result(db, FALSE, "shown_step", << >>))

\* op_lint: ok is the flag the code exits on
LintOk(m) ==
    /\ \A s \in StepsOf(m) : normalize_step_name(s).ok
    /\ \A k1, k2 \in DOMAIN m : k1 # k2 => Range(m[k1]) \cap Range(m[k2]) = { }
    /\ \A k \in DOMAIN m : canonicalize_sequence(k).ok

op_lint(db) ==
    Result(db, FALSE, IF LintOk(db.map) THEN "lint_ok" ELSE "lint_failed", << >>)

\* A faulty op_gc: every sequence is dropped, empty or not
op_gc_clears(db) == Result([ db EXCEPT !.map = EmptyMap ], db.map # EmptyMap, "gc", << >>)

\* A faulty op_gc: the document is saved on every run
op_gc_resaved(db) ==
    Result([ db EXCEPT !.map = [ k \in { x \in DOMAIN db.map : db.map[x] # << >> } |-> db.map[k] ] ],
           TRUE, "gc", << >>)

\* A faulty op_gc: the cleaned document is never saved
op_gc_unsaved(db) == Result(db, FALSE, "gc", << >>)

op_gc(db) ==
    Bind({ k \in DOMAIN db.map : db.map[k] # << >> }, LAMBDA kept :
      Result([ db EXCEPT !.map = [ k \in kept |-> db.map[k] ] ],
             Cardinality(DOMAIN db.map) # Cardinality(kept), "gc", << >>))

\* -------------------------------------------------------------- the inputs

OpenMenu == << "o", "p", "e", "n", " ", "m", "e", "n", "u" >>

OpenTheMenu == << "o", "p", "e", "n", " ", "t", "h", "e", " ", "m", "e", "n", "u" >>

OkStep == << "o", "k" >>

\* " open  menu": normalizes to OpenMenu
OpenMenuSpaced == << " ", "o", "p", "e", "n", " ", " ", "m", "e", "n", "u" >>

\* "Ok!": no step name
BadStep == << "O", "k", "!" >>

\* "DOWN, DOWN" and "down down": both canonicalize to KeyDownDown
DownDownRaw == << "D", "O", "W", "N", ",", " ", "D", "O", "W", "N" >>

UpRaw == << "U", "P" >>

\* "FOO": an unknown token
FooRaw == << "F", "O", "O" >>

\* A sequence line with separators and no token
CommaOnly == << ",", " " >>

KeyDownDown == << "D", "O", "W", "N", ",", "D", "O", "W", "N" >>

KeyUp == << "U", "P" >>

KeyEnter == << "E", "N", "T", "E", "R" >>

Yes == << "y" >>

No == << "n" >>

\* The most answers the collaborator gives beyond a command's own arguments
MaxAsk == 2

\* The answer lists of at most MaxAsk lines over S
Answers(S) == UNION { [ 1 .. k -> S ] : k \in 0 .. MaxAsk }

AddStepLines == { OpenMenu, OpenMenuSpaced, BadStep }

AddSeqLines == { DownDownRaw, UpRaw, FooRaw, CommaOnly }

AddAnswerLines == { OpenTheMenu, OkStep }

ReassignSteps == { << >>, OpenMenu, OpenTheMenu }

ReassignSeqs == { << >>, UpRaw, DownDownRaw }

ReassignAnswerLines == { OpenMenu, UpRaw }

RenameSteps == { << >>, OpenMenu, OpenTheMenu }

RenameAnswerLines == { OpenMenu, OpenTheMenu }

RemoveSteps == { OpenMenu, OpenTheMenu, BadStep }

ConfirmLines == { Yes, No }

ShowQueries == { OpenMenu, UpRaw, BadStep }

\* --------------------------------------------------------------- the state

VARIABLES
    disk,   \* the storage path: << >> (no file) or << document >>
    cmd,    \* the running invocation: command, arguments, collaborator answers
    res,    \* how the invocation ended
    pre,    \* what the storage path held when the invocation started
    reran,  \* the invocation repeats the one before it, with the same input
    prev,   \* for a repeated invocation: pre and res of the one it repeats
    scen,   \* how far the run has followed the end-to-end scenario
    dir,    \* the storage directory, step by step: file name -> file
    files,  \* file -> the chunks written to it so far
    proc,   \* the processes working on the directory: where each one is
    committed,  \* the documents the storage path has held, complete
    canon   \* a sequence as typed, and what canonicalize_sequence made of it

vars ==
    << disk, cmd, res, pre, reran, prev, scen, dir, files, proc, committed, canon >>

appvars == << disk, cmd, res, pre, reran, prev, scen >>

fsvars == << dir, files, proc, committed >>

\* No sequence is being canonicalized
NoCanon == [ tokens |-> << >>, raw |-> << >>, stage |-> "off", once |-> << >>, twice |-> << >> ]

Cmd(op, step, seq, yes, script) ==
    [ op |-> op, step |-> step, seq |-> seq, yes |-> yes, script |-> script ]

Idle == Cmd("idle", << >>, << >>, FALSE, << >>)

NoRes == [ out |-> "", wrote |-> FALSE, rest |-> << >> ]

NoPrev == [ pre |-> << >>, res |-> NoRes ]

\* atomic_save(path, db), completed: the path holds the new document
atomic_save(file, db) == << db >>

\* What the storage path holds when an operation ends with r
Stored(file, r) == IF r.wrote THEN atomic_save(file, r.doc) ELSE file

Outcome(r) == [ out |-> r.out, wrote |-> r.wrote, rest |-> r.rest ]

\* main(): the dispatch on the command
Exec(c, db) ==
    CASE c.op = "add"      -> op_add(db, c.script)
      [] c.op = "reassign" -> op_reassign(db, c.step, c.seq, c.script)
      [] c.op = "rename"   -> op_rename(db, c.step, c.seq, c.script)
      [] c.op = "rm"       -> op_remove(db, c.step, c.yes, c.script)
      [] c.op = "list"     -> op_list(db)
      [] c.op = "show"     -> op_show(db, c.step)
      [] c.op = "lint"     -> op_lint(db)
      [] c.op = "gc"       -> op_gc(db)

\* The end-to-end scenario: add, rename, reassign, rm --yes, gc
ScenStep(at, c) ==
    IF at = "start" /\ c = Cmd("add", << >>, << >>, FALSE, << OpenMenu, DownDownRaw >>)
    THEN "added"
    ELSE IF at = "added" /\ c = Cmd("rename", OpenMenu, OpenTheMenu, FALSE, << >>)
    THEN "renamed"
    ELSE IF at = "renamed" /\ c = Cmd("reassign", OpenTheMenu, UpRaw, FALSE, << >>)
    THEN "reassigned"
    ELSE IF at = "reassigned" /\ c = Cmd("rm", OpenTheMenu, << >>, TRUE, << >>)
    THEN "removed"
    ELSE IF at = "removed" /\ c = Cmd("gc", << >>, << >>, FALSE, << >>)
    THEN "collected"
    ELSE "off"

\* ---------------------------------------------- the store, system call by
\* system call: atomic_save and load_db as the steps they take in a directory
\* that other processes work on too.

\* The chunks a file is written in
Chunks == 2

\* DEFAULT_FILE
Path == "sequences.json"

\* One process only loads and lists, the others run a mutating operation
Reader == 0

Writers == { 1, 2 }

Procs == { Reader } \cup Writers

\* The name mkstemp gives the temporary file of process w
Tmp(w) == << ".sequences.1.tmp", ".sequences.2.tmp" >>[w]

\* json.dump: the text of a document, as the chunks it is written in
Serialize(db) == [ i \in 1 .. Chunks |-> [ doc |-> db, part |-> i ] ]

\* json.load: the document of a text; a text cut short is no document
Parse(text) ==
    IF text # << >> /\ text = Serialize(text[1].doc)
    THEN [ ok |-> TRUE, val |-> text[1].doc ]
    ELSE [ ok |-> FALSE, val |-> EmptyDoc ]

NoNames == [ n \in { } |-> 0 ]

NoFiles == [ f \in { } |-> << >> ]

\* A faulty mkstemp: the storage path itself is opened for writing
mkstemp_in_place(d, f, w) ==
    Bind(IF Path \in DOMAIN d THEN d[Path] ELSE w, LAMBDA ino :
      [ dir |-> MapSet(d, Path, ino), files |-> MapSet(f, ino, << >>), ino |-> ino ])

\* tempfile.mkstemp: a new empty file under a name of its own
mkstemp(d, f, w) ==
    [ dir |-> MapSet(d, Tmp(w), w), files |-> MapSet(f, w, << >>), ino |-> w ]

\* A faulty Flushed: the replace does not wait for the text to be complete
FlushedEarly(text, db) == TRUE

\* The with block is left: every chunk of the text is in the file
Flushed(text, db) == text = Serialize(db)

\* os.replace: dst names the file src named, src names nothing
os_replace(d, src, dst) == MapSet(MapDel(d, src), dst, d[src])

\* os.remove
os_remove(d, name) == MapDel(d, name)

\* A process that has not started
NotStarted == [ pc |-> "start", ino |-> 0, db |-> EmptyDoc ]

\* No process works on the directory
FsOff ==
    /\ dir = NoNames
    /\ files = NoFiles
    /\ proc = [ p \in Procs |-> NotStarted ]
    /\ committed = { EmptyDoc }

\* Each action below is one invocation of the program, from load_db to the
\* end of its operation.

Add ==
    /\ cmd.op = "idle"
    /\ UNCHANGED << fsvars, canon >>
    /\ \E s \in AddStepLines, q \in AddSeqLines, a \in Answers(AddAnswerLines) :
         \E c \in { Cmd("add", << >>, << >>, FALSE, << s, q >> \o a) } :
           \E r \in { op_add(load_db(disk), c.script) } :
             /\ disk' = Stored(disk, r)
             /\ cmd' = c
             /\ res' = Outcome(r)
             /\ pre' = disk
             /\ reran' = FALSE
             /\ prev' = NoPrev
             /\ scen' = ScenStep(scen, c)

Reassign ==
    /\ cmd.op = "idle"
    /\ UNCHANGED << fsvars, canon >>
    /\ \E s \in ReassignSteps, q \in ReassignSeqs, a \in Answers(ReassignAnswerLines) :
         \E c \in { Cmd("reassign", s, q, FALSE, a) } :
           \E r \in { op_reassign(load_db(disk), c.step, c.seq, c.script) } :
             /\ disk' = Stored(disk, r)
             /\ cmd' = c
             /\ res' = Outcome(r)
             /\ pre' = disk
             /\ reran' = FALSE
             /\ prev' = NoPrev
             /\ scen' = ScenStep(scen, c)

Rename ==
    /\ cmd.op = "idle"
    /\ UNCHANGED << fsvars, canon >>
    /\ \E o \in RenameSteps, n \in RenameSteps, a \in Answers(RenameAnswerLines) :
         \E c \in { Cmd("rename", o, n, FALSE, a) } :
           \E r \in { op_rename(load_db(disk), c.step, c.seq, c.script) } :
             /\ disk' = Stored(disk, r)
             /\ cmd' = c
             /\ res' = Outcome(r)
             /\ pre' = disk
             /\ reran' = FALSE
             /\ prev' = NoPrev
             /\ scen' = ScenStep(scen, c)

Remove ==
    /\ cmd.op = "idle"
    /\ UNCHANGED << fsvars, canon >>
    /\ \E s \in RemoveSteps, y \in BOOLEAN, a \in Answers(ConfirmLines) :
         \E c \in { Cmd("rm", s, << >>, y, a) } :
           \E r \in { op_remove(load_db(disk), c.step, c.yes, c.script) } :
             /\ disk' = Stored(disk, r)
             /\ cmd' = c
             /\ res' = Outcome(r)
             /\ pre' = disk
             /\ reran' = FALSE
             /\ prev' = NoPrev
             /\ scen' = ScenStep(scen, c)

List ==
    /\ cmd.op = "idle"
    /\ UNCHANGED << fsvars, canon >>
    /\ \E r \in { op_list(load_db(disk)) } :
         /\ disk' = Stored(disk, r)
         /\ cmd' = Cmd("list", << >>, << >>, FALSE, << >>)
         /\ res' = Outcome(r)
         /\ pre' = disk
         /\ reran' = FALSE
         /\ prev' = NoPrev
         /\ scen' = "off"

Show ==
    /\ cmd.op = "idle"
    /\ UNCHANGED << fsvars, canon >>
    /\ \E q \in ShowQueries :
         \E r \in { op_show(load_db(disk), q) } :
           /\ disk' = Stored(disk, r)
           /\ cmd' = Cmd("show", q, << >>, FALSE, << >>)
           /\ res' = Outcome(r)
           /\ pre' = disk
           /\ reran' = FALSE
           /\ prev' = NoPrev
           /\ scen' = "off"

Lint ==
    /\ cmd.op = "idle"
    /\ UNCHANGED << fsvars, canon >>
    /\ \E r \in { op_lint(load_db(disk)) } :
         /\ disk' = Stored(disk, r)
         /\ cmd' = Cmd("lint", << >>, << >>, FALSE, << >>)
         /\ res' = Outcome(r)
         /\ pre' = disk
         /\ reran' = FALSE
         /\ prev' = NoPrev
         /\ scen' = "off"

Gc ==
    /\ cmd.op = "idle"
    /\ UNCHANGED << fsvars, canon >>
    /\ \E c \in { Cmd("gc", << >>, << >>, FALSE, << >>) } :
         \E r \in { op_gc(load_db(disk)) } :
           /\ disk' = Stored(disk, r)
           /\ cmd' = c
           /\ res' = Outcome(r)
           /\ pre' = disk
           /\ reran' = FALSE
           /\ prev' = NoPrev
           /\ scen' = ScenStep(scen, c)

\* The same command line again, with the same collaborator answers
Rerun ==
    /\ cmd.op # "idle"
    /\ UNCHANGED << fsvars, canon >>
    /\ ~reran
    /\ \E r \in { Exec(cmd, load_db(disk)) } :
         /\ disk' = Stored(disk, r)
         /\ res' = Outcome(r)
    /\ pre' = disk
    /\ reran' = TRUE
    /\ prev' = [ pre |-> pre, res |-> res ]
    /\ scen' = "off"
    /\ UNCHANGED cmd

\* The process is gone; the document stays
Exit ==
    /\ cmd.op # "idle"
    /\ UNCHANGED << fsvars, canon >>
    /\ cmd' = Idle
    /\ res' = NoRes
    /\ pre' = disk
    /\ reran' = FALSE
    /\ prev' = NoPrev
    /\ UNCHANGED << disk, scen >>

Init ==
    /\ disk \in { << >>, << EmptyDoc >> }
    /\ cmd = Idle
    /\ res = NoRes
    /\ pre = disk
    /\ reran = FALSE
    /\ prev = NoPrev
    /\ scen = "start"
    /\ FsOff
    /\ canon = NoCanon

Next ==
    \/ Add
    \/ Reassign
    \/ Rename
    \/ Remove
    \/ List
    \/ Show
    \/ Lint
    \/ Gc
    \/ Rerun
    \/ Exit

Spec == Init /\ [][Next]_vars

\* A document edited by hand, with "open menu" under two sequences
DocTwice ==
    [ version |-> VERSION,
      map |-> MapSet(MapSet(EmptyMap, KeyDownDown, << OpenMenu >>), KeyUp, << OpenMenu >>) ]

\* The same with a second step and a sequence whose list is empty
DocTwiceEmpty ==
    [ version |-> VERSION,
      map |-> MapSet(MapSet(DocTwice.map, KeyUp, << OpenMenu, OpenTheMenu >>),
                     KeyEnter, << >>) ]

\* The store holds a document that no operation wrote
InitAny ==
    /\ disk \in { << DocTwice >>, << DocTwiceEmpty >> }
    /\ cmd = Idle
    /\ res = NoRes
    /\ pre = disk
    /\ reran = FALSE
    /\ prev = NoPrev
    /\ scen = "off"
    /\ FsOff
    /\ canon = NoCanon

SpecAny == InitAny /\ [][Next]_vars

\* The command lines of the writers
FsCmds ==
    { Cmd("add", << >>, << >>, FALSE, << OpenMenu, UpRaw >>),
      Cmd("add", << >>, << >>, FALSE, << OkStep, DownDownRaw >>),
      Cmd("add", << >>, << >>, FALSE, << OpenMenu, DownDownRaw >>),
      Cmd("rm", OpenMenu, << >>, TRUE, << >>) }

\* load_db: os.path.exists
FsExists ==
    \E p \in Procs :
      /\ proc[p].pc = "start"
      /\ proc' = [ proc EXCEPT ![p] =
                     IF Path \in DOMAIN dir THEN [ @ EXCEPT !.pc = "open" ]
                     ELSE [ @ EXCEPT !.pc = "loaded", !.db = EmptyDoc ] ]
      /\ UNCHANGED << dir, files, committed, appvars, canon >>

\* load_db: open
FsOpen ==
    \E p \in Procs :
      /\ proc[p].pc = "open"
      /\ Path \in DOMAIN dir
      /\ proc' = [ proc EXCEPT ![p] = [ @ EXCEPT !.pc = "read", !.ino = dir[Path] ] ]
      /\ UNCHANGED << dir, files, committed, appvars, canon >>

\* load_db: json.load
FsRead ==
    \E p \in Procs :
      /\ proc[p].pc = "read"
      /\ \E r \in { Parse(files[proc[p].ino]) } :
           proc' = [ proc EXCEPT ![p] =
                       IF r.ok THEN [ @ EXCEPT !.pc = "loaded", !.db = r.val ]
                       ELSE [ @ EXCEPT !.pc = "failed" ] ]
      /\ UNCHANGED << dir, files, committed, appvars, canon >>

\* op_list after load_db
FsList ==
    /\ proc[Reader].pc = "loaded"
    /\ proc' = [ proc EXCEPT ![Reader] = [ @ EXCEPT !.pc = "done" ] ]
    /\ UNCHANGED << dir, files, committed, appvars, canon >>

\* A mutating operation after load_db, up to its call of atomic_save
FsCompute ==
    \E w \in Writers, c \in FsCmds :
      /\ proc[w].pc = "loaded"
      /\ \E r \in { Exec(c, proc[w].db) } :
           proc' = [ proc EXCEPT ![w] =
                       IF r.wrote THEN [ @ EXCEPT !.pc = "mkstemp", !.db = r.doc ]
                       ELSE [ @ EXCEPT !.pc = "done" ] ]
      /\ UNCHANGED << dir, files, committed, appvars, canon >>

\* atomic_save: mkstemp
FsMkstemp ==
    \E w \in Writers :
      /\ proc[w].pc = "mkstemp"
      /\ \E m \in { mkstemp(dir, files, w) } :
           /\ dir' = m.dir
           /\ files' = m.files
           /\ proc' = [ proc EXCEPT ![w] = [ @ EXCEPT !.pc = "write", !.ino = m.ino ] ]
      /\ UNCHANGED << committed, appvars, canon >>

\* atomic_save: mkstemp raises, before the try
FsMkstempFails ==
    \E w \in Writers :
      /\ proc[w].pc = "mkstemp"
      /\ proc' = [ proc EXCEPT ![w] = [ @ EXCEPT !.pc = "failed" ] ]
      /\ UNCHANGED << dir, files, committed, appvars, canon >>

\* atomic_save: json.dump, one chunk more in the file
FsWrite ==
    \E w \in Writers :
      /\ proc[w].pc = "write"
      /\ ~Flushed(files[proc[w].ino], proc[w].db)
      /\ files' = [ files EXCEPT ![proc[w].ino] =
                      Append(@, Serialize(proc[w].db)[Len(@) + 1]) ]
      /\ UNCHANGED << dir, proc, committed, appvars, canon >>

\* atomic_save: the write raises
FsWriteFails ==
    \E w \in Writers :
      /\ proc[w].pc = "write"
      /\ ~Flushed(files[proc[w].ino], proc[w].db)
      /\ proc' = [ proc EXCEPT ![w] = [ @ EXCEPT !.pc = "cleanup_failed" ] ]
      /\ UNCHANGED << dir, files, committed, appvars, canon >>

\* atomic_save: os.replace
FsReplace ==
    \E w \in Writers :
      /\ proc[w].pc = "write"
      /\ Flushed(files[proc[w].ino], proc[w].db)
      /\ Tmp(w) \in DOMAIN dir
      /\ dir' = os_replace(dir, Tmp(w), Path)
      /\ committed' = committed \cup { proc[w].db }
      /\ proc' = [ proc EXCEPT ![w] = [ @ EXCEPT !.pc = "cleanup" ] ]
      /\ UNCHANGED << files, appvars, canon >>

\* atomic_save: os.replace raises
FsReplaceFails ==
    \E w \in Writers :
      /\ proc[w].pc = "write"
      /\ Flushed(files[proc[w].ino], proc[w].db)
      /\ proc' = [ proc EXCEPT ![w] = [ @ EXCEPT !.pc = "cleanup_failed" ] ]
      /\ UNCHANGED << dir, files, committed, appvars, canon >>

\* atomic_save: the finally block
FsCleanup ==
    \E w \in Writers :
      /\ proc[w].pc \in { "cleanup", "cleanup_failed" }
      /\ dir' = IF Tmp(w) \in DOMAIN dir THEN os_remove(dir, Tmp(w)) ELSE dir
      /\ proc' = [ proc EXCEPT ![w] =
                     [ @ EXCEPT !.pc = IF proc[w].pc = "cleanup" THEN "done" ELSE "failed" ] ]
      /\ UNCHANGED << files, committed, appvars, canon >>

\* The process is killed inside atomic_save
FsCrash ==
    \E w \in Writers :
      /\ proc[w].pc \in { "mkstemp", "write", "cleanup", "cleanup_failed" }
      /\ proc' = [ proc EXCEPT ![w] = [ @ EXCEPT !.pc = "crashed" ] ]
      /\ UNCHANGED << dir, files, committed, appvars, canon >>

\* No file at the storage path, or a complete document
InitFs ==
    /\ disk = << >>
    /\ cmd = Idle
    /\ res = NoRes
    /\ pre = disk
    /\ reran = FALSE
    /\ prev = NoPrev
    /\ scen = "off"
    /\ canon = NoCanon
    /\ proc = [ p \in Procs |-> NotStarted ]
    /\ \E start \in { << >>, << EmptyDoc >> } :
         /\ dir = IF start = << >> THEN NoNames ELSE MapSet(NoNames, Path, 0)
         /\ files = IF start = << >> THEN NoFiles ELSE MapSet(NoFiles, 0, Serialize(start[1]))
         /\ committed = { load_db(start) }

NextFs ==
    \/ FsExists
    \/ FsOpen
    \/ FsRead
    \/ FsList
    \/ FsCompute
    \/ FsMkstemp
    \/ FsMkstempFails
    \/ FsWrite
    \/ FsWriteFails
    \/ FsReplace
    \/ FsReplaceFails
    \/ FsCleanup
    \/ FsCrash

SpecFs == InitFs /\ [][NextFs]_vars

\* ------------------------------------------ canonicalize_sequence by itself

\* The most tokens in a sequence typed
MaxTokens == 2

\* Tokens of the allow-list
TypedTokens == { KeyUp, << "D", "O", "W", "N" >>, << "W", "A", "I", "T", "1" >> }

\* A token in upper case, in lower case, and with a capital only
Spellings(t) ==
    { t, StrLower(t), [ i \in DOMAIN t |-> IF i = 1 THEN t[i] ELSE ToLowerChar[t[i]] ] }

\* What can stand between two tokens: commas and whitespace, at least one
Separators ==
    { << "," >>, << " " >>, << "\t" >>, << ",", " " >>, << " ", ",", " " >>, << ",", "," >> }

\* The sequences typed: tokens of the allow-list in any spelling, a separator
\* after each but the last
Typed ==
    UNION { { [ tokens |-> t, seps |-> sp ] :
                t \in [ 1 .. n -> UNION { Spellings(x) : x \in TypedTokens } ],
                sp \in [ 1 .. n - 1 -> Separators ] } : n \in 1 .. MaxTokens }

\* The line typed: the tokens with the separators between them
RECURSIVE Line(_, _)
Line(tokens, seps) ==
    IF Len(tokens) = 1 THEN tokens[1]
    ELSE tokens[1] \o seps[1] \o Line(Tail(tokens), Tail(seps))

\* A sequence is typed
InitSeq ==
    /\ disk = << >>
    /\ cmd = Idle
    /\ res = NoRes
    /\ pre = disk
    /\ reran = FALSE
    /\ prev = NoPrev
    /\ scen = "off"
    /\ FsOff
    /\ \E t \in Typed :
         canon = [ NoCanon EXCEPT !.tokens = t.tokens, !.raw = Line(t.tokens, t.seps),
                                  !.stage = "typed" ]

\* canonicalize_sequence on the line typed
Canonicalize ==
    /\ canon.stage = "typed"
    /\ canon' = [ canon EXCEPT !.stage = "once", !.once = canonicalize_sequence(canon.raw) ]
    /\ UNCHANGED << appvars, fsvars >>

\* canonicalize_sequence on the key it returned
Recanonicalize ==
    /\ canon.stage = "once"
    /\ canon.once.ok
    /\ canon' = [ canon EXCEPT !.stage = "twice",
                               !.twice = canonicalize_sequence(canon.once.val) ]
    /\ UNCHANGED << appvars, fsvars >>

NextSeq == Canonicalize \/ Recanonicalize

SpecSeq == InitSeq /\ [][NextSeq]_vars

\* ------------------------------------------------------------- properties

\* The sequences whose list holds step s
Owners(m, s) == { k \in DOMAIN m : InList(s, m[k]) }

\* How often step s is in lst
Count(lst, s) == Cardinality({ i \in DOMAIN lst : lst[i] = s })

Before == load_db(pre).map

After == load_db(disk).map

\* The step names among the collaborator's answers
NamesGiven(script) ==
    { normalize_step_name(Strip(script[i])).val :
        i \in { j \in DOMAIN script : normalize_step_name(Strip(script[j])).ok } }

\* C1: from the empty document, whatever operations ran, no step name is
\* under two different sequence keys of the stored document.
C1_Uniqueness == \A s \in StepsOf(After) : Cardinality(Owners(After, s)) <= 1

\* A write has left three steps under two sequences
C1_Witness ==
    /\ res.wrote
    /\ Cardinality(StepsOf(After)) = 3
    /\ Cardinality({ k \in DOMAIN After : After[k] # << >> }) = 2

\* C7: when add is given a step that another sequence owns, the step stays
\* with that sequence alone, and the one name inserted under the target is a
\* name the collaborator gave that no sequence owned before; no other list
\* changes.
C7_AddNeverReassigns ==
    (cmd.op = "add" /\ res.out = "added") =>
        LET p   == prompt_valid_step_name(cmd.script)
            seq == canonicalize_sequence(Strip(Head(p.rest))).val
            old == IF seq \in DOMAIN Before THEN Range(Before[seq]) ELSE { }
        IN  (Owners(Before, p.val) # { } /\ seq \notin Owners(Before, p.val)) =>
              /\ Owners(After, p.val) = Owners(Before, p.val)
              /\ \E n \in NamesGiven(Tail(p.rest)) :
                    /\ n \notin StepsOf(Before)
                    /\ Range(After[seq]) = old \cup { n }
              /\ \A k \in DOMAIN After \ { seq } : k \in DOMAIN Before /\ After[k] = Before[k]

\* add met a step of another sequence and inserted a new name
C7_Witness ==
    /\ cmd.op = "add"
    /\ res.out = "added"
    /\ Owners(Before, prompt_valid_step_name(cmd.script).val) # { }

\* C8: after a reassign that moved a step, the step is once in the
\* destination's list and in no other list.
C8_ReassignMoves ==
    (cmd.op = "reassign" /\ res.out = "reassigned") =>
        LET rev == build_reverse_cache(load_db(pre)).rev
            f   == FindStep(ResolveStep(cmd.step, cmd.script), rev)
            sq  == ResolveSeq(cmd.seq, f.rest)
        IN  /\ rev[f.val] # sq.val
            /\ Owners(After, f.val) = { sq.val }
            /\ Count(After[sq.val], f.val) = 1

\* reassign moved a step into a sequence that held another step
C8_Witness ==
    /\ cmd.op = "reassign"
    /\ res.out = "reassigned"
    /\ \E k \in DOMAIN After : Len(After[k]) = 2

DocDownDown ==
    [ version |-> VERSION, map |-> MapSet(EmptyMap, KeyDownDown, << OpenTheMenu >>) ]

DocUp == [ version |-> VERSION, map |-> MapSet(EmptyMap, KeyUp, << OpenTheMenu >>) ]

DocUpAndEmpty == [ DocUp EXCEPT !.map = MapSet(DocUp.map, KeyDownDown, << >>) ]

ReassignToUp == Cmd("reassign", OpenTheMenu, UpRaw, FALSE, << >>)

\* C9 as stated: from {"DOWN,DOWN": ["open the menu"]}, reassign to UP
\* yields the map {"UP": ["open the menu"]}.
C9_Stated == (pre = << DocDownDown >> /\ cmd = ReassignToUp) => load_db(disk) = DocUp

\* C9: from {"DOWN,DOWN": ["open the menu"]}, reassign to UP yields
\* {"UP": ["open the menu"], "DOWN,DOWN": []}: the emptied key stays, and a
\* later gc yields {"UP": ["open the menu"]}.
C9_ReassignKeepsEmptyKey ==
    /\ (pre = << DocDownDown >> /\ cmd = ReassignToUp) => disk = << DocUpAndEmpty >>
    /\ (pre = << DocUpAndEmpty >> /\ cmd.op = "gc") => disk = << DocUp >>

\* The reassign of the scenario has run
C9_Witness == pre = << DocDownDown >> /\ cmd = ReassignToUp /\ res.out = "reassigned"

\* C10: from the empty document, add("open menu", "DOWN, DOWN") yields
\* {"DOWN,DOWN": ["open menu"]}; rename to "open the menu" yields
\* {"DOWN,DOWN": ["open the menu"]}; then reassign to UP, rm --yes and gc
\* leave {"version": 1, "map": {}}.
C10_Scenario ==
    /\ scen = "added" =>
         load_db(disk) = [ DocDownDown EXCEPT !.map = MapSet(EmptyMap, KeyDownDown, << OpenMenu >>) ]
    /\ scen = "renamed" => load_db(disk) = DocDownDown
    /\ scen = "collected" => disk = << EmptyDoc >>

\* The five commands of the scenario have run, the gc last
C10_Witness == scen = "collected" /\ cmd.op = "gc" /\ res.wrote

\* C4 as stated: add run twice with the same arguments and the same
\* collaborator answers leaves the document the first run left.
C4_Stated == (reran /\ cmd.op = "add") => disk = pre

\* The step and the sequence an add was given: the first valid step name of
\* the script and the line after it
Given(script) ==
    LET p == prompt_valid_step_name(script)
    IN  IF p.eof \/ p.rest = << >> THEN [ ok |-> FALSE, step |-> << >>, seq |-> << >> ]
        ELSE LET cs == canonicalize_sequence(Strip(Head(p.rest)))
             IN  [ ok |-> cs.ok, step |-> p.val, seq |-> cs.val ]

\* C4: add run twice with the same valid step and sequence leaves the
\* document the first run left, the second run reporting no change and
\* writing nothing, provided no sequence other than the target held the step
\* before the first run.
C4_AddTwice ==
    (reran /\ cmd.op = "add" /\ Given(cmd.script).ok
       /\ Owners(load_db(prev.pre).map, Given(cmd.script).step) \subseteq { Given(cmd.script).seq })
      => disk = pre /\ res.out = "noop" /\ ~res.wrote

\* add ran twice, the first run inserting the step it was given
C4_Witness ==
    /\ reran
    /\ cmd.op = "add"
    /\ prev.res.out = "added"
    /\ Owners(load_db(prev.pre).map, Given(cmd.script).step) = { }
    /\ res.out = "noop"

\* C5 as stated: any mutating operation run again on the document it
\* produced, with the same arguments and answers, changes nothing.
C5_Stated ==
    (reran /\ cmd.op \in { "add", "reassign", "rename", "rm", "gc" }) => disk = pre

\* C5: reassign, rm and gc run again on the document they produced write
\* nothing and leave it unchanged; so does add when no sequence other than
\* the target held the step before the first run, and so does rename when
\* the collaborator answers nothing (the second run then fails).
C5_RerunChangesNothing ==
    (/\ reran
     /\ \/ cmd.op \in { "reassign", "rm", "gc" }
        \/ /\ cmd.op = "add"
           /\ Given(cmd.script).ok
           /\ Owners(load_db(prev.pre).map, Given(cmd.script).step)
                \subseteq { Given(cmd.script).seq }
        \/ cmd.op = "rename" /\ cmd.script = << >>)
      => disk = pre /\ ~res.wrote

\* A rename then a second run of it, and likewise a reassign, an rm and a gc
\* that changed the document
C5_Witness ==
    /\ reran
    /\ prev.res.wrote
    /\ prev.pre # pre
    /\ cmd.op = "rename"
    /\ cmd.script = << >>
    /\ res.out = "eof"

\* Some step is under two sequences
TwoOwners(m) == \E s \in StepsOf(m) : Cardinality(Owners(m, s)) > 1

\* C6 as stated: on a document with a step under two sequences every
\* operation aborts as inconsistent and the store is unchanged.
C6_Stated ==
    (cmd.op # "idle" /\ TwoOwners(Before)) => res.out = "inconsistent" /\ disk = pre

\* C6: on a document with a step under two sequences, add, reassign, rename
\* and rm abort as inconsistent and write nothing; show does so only for a
\* query that is no sequence but a valid step name; list and lint run to the
\* end and write nothing; gc runs to the end and writes the document without
\* its empty lists when it has one.
C6_InconsistentStore ==
    (cmd.op # "idle" /\ TwoOwners(Before)) =>
      /\ cmd.op \in { "add", "reassign", "rename", "rm" } =>
           res.out = "inconsistent" /\ ~res.wrote /\ disk = pre
      /\ cmd.op = "show" =>
           /\ ~res.wrote /\ disk = pre
           /\ res.out = "inconsistent" <=>
                /\ ~canonicalize_sequence(Strip(cmd.step)).ok
                /\ normalize_step_name(Strip(cmd.step)).ok
      /\ cmd.op \in { "list", "lint" } =>
           res.out \in { "listed", "lint_failed" } /\ ~res.wrote /\ disk = pre
      /\ cmd.op = "gc" =>
           /\ res.out = "gc"
           /\ res.wrote <=> \E k \in DOMAIN Before : Before[k] = << >>
           /\ After = [ k \in { x \in DOMAIN Before : Before[x] # << >> } |-> Before[k] ]

\* gc has written a document that has a step under two sequences
C6_Witness == cmd.op = "gc" /\ res.wrote /\ TwoOwners(Before) /\ TwoOwners(After)

\* What the storage path holds: the text of its file, or the mark of no file
Absent == << [ doc |-> EmptyDoc, part |-> 0 ] >>

PathText == IF Path \in DOMAIN dir THEN files[dir[Path]] ELSE Absent

\* A step that changes what the storage path holds is the os.replace of a
\* writer whose whole document is in its temporary file, and the path then
\* holds that document
ReplaceOnly ==
    PathText' # PathText =>
      \E w \in Writers :
        /\ proc[w].pc = "write"
        /\ proc'[w].pc = "cleanup"
        /\ Parse(files[dir[Tmp(w)]]) = [ ok |-> TRUE, val |-> proc[w].db ]
        /\ Parse(PathText') = [ ok |-> TRUE, val |-> proc[w].db ]

\* C2: whatever step of atomic_save fails or is interrupted (mkstemp, the
\* write, os.replace), the storage path keeps the complete document it had;
\* what the path holds changes only in the os.replace step, and then to the
\* complete new document.
C2_CrashSafe == [][ReplaceOnly]_vars

\* A writer was killed with half of its text in the temporary file, after the
\* other writer replaced the document; the path holds a complete document
C2_Witness ==
    \E w \in Writers :
      /\ proc[w].pc = "crashed"
      /\ Tmp(w) \in DOMAIN dir
      /\ Len(files[dir[Tmp(w)]]) \in 1 .. Chunks - 1
      /\ Parse(PathText).ok
      /\ Parse(PathText).val # EmptyDoc

\* C3: a process that loads the storage path while writers run atomic_save
\* never fails on a text cut short, and the document it gets is one that was
\* complete at the path: the one before or the one after a replace.
C3_ReaderSeesComplete ==
    /\ proc[Reader].pc # "failed"
    /\ proc[Reader].pc \in { "loaded", "done" } => proc[Reader].db \in committed

\* The reader got a document a writer put at the path, while the other
\* writer has part of its text in its temporary file
C3_Witness ==
    /\ proc[Reader].pc = "done"
    /\ proc[Reader].db # EmptyDoc
    /\ \E w \in Writers :
         /\ proc[w].pc = "write"
         /\ Len(files[proc[w].ino]) \in 1 .. Chunks - 1

\* C11: an add, reassign, rename or rm that ends on an invalid step name, an
\* empty sequence or an unknown token writes nothing and leaves the stored
\* document as it was; add ends so on an invalid sequence line, rm on an
\* invalid step argument.
C11_ValidationFailure ==
    /\ (/\ cmd.op \in { "add", "reassign", "rename", "rm" }
        /\ res.out \in { "bad_sequence", "bad_step" }) =>
         /\ cmd.op \in { "add", "rm" }
         /\ disk = pre
         /\ ~res.wrote
    /\ cmd.op = "add" =>
         LET p == prompt_valid_step_name(cmd.script)
         IN  (~p.eof /\ p.rest # << >> /\ ~canonicalize_sequence(Strip(Head(p.rest))).ok)
               => res.out = "bad_sequence" /\ disk = pre /\ ~res.wrote
    /\ (cmd.op = "rm" /\ ~normalize_step_name(cmd.step).ok)
         => res.out = "bad_step" /\ disk = pre /\ ~res.wrote

\* add was given a sequence line without a token, on a document with steps
C11_Witness ==
    /\ cmd.op = "add"
    /\ res.out = "bad_sequence"
    /\ StepsOf(Before) # { }
    /\ \E i \in DOMAIN cmd.script : canonicalize_sequence(Strip(cmd.script[i])).err = "empty"

\* The steps that have a sequence in the document the invocation loaded
Known == StepsOf(Before)

\* The collaborator was asked for a line
Asked == res.out = "eof" \/ Len(res.rest) < Len(cmd.script)

\* reassign and rename: a step in no sequence is asked for once more; when
\* the second one is in no sequence either the operation ends as not found
\* and writes nothing, otherwise it goes on with the second one
SecondStep ==
    cmd.op \in { "reassign", "rename" } =>
      LET p1 == ResolveStep(cmd.step, cmd.script)
          p2 == prompt_valid_step_name(p1.rest)
      IN  (~p1.eof /\ p1.val \notin Known /\ ~p2.eof) =>
            IF p2.val \notin Known
            THEN res.out = "not_found" /\ res.rest = p2.rest /\ disk = pre /\ ~res.wrote
            ELSE res.out # "not_found"

\* rename: a new name that is in a sequence is asked for once more; when the
\* second one is in a sequence too the operation ends as a collision and
\* writes nothing, otherwise the second one is the new name
SecondName ==
    cmd.op = "rename" =>
      LET p1 == ResolveStep(cmd.step, cmd.script)
          p2 == IF p1.eof \/ p1.val \in Known THEN p1 ELSE prompt_valid_step_name(p1.rest)
          n1 == ResolveStep(cmd.seq, p2.rest)
          n2 == prompt_valid_step_name(n1.rest)
      IN  (~p2.eof /\ p2.val \in Known /\ ~n1.eof /\ n1.val \in Known /\ ~n2.eof) =>
            IF n2.val \in Known
            THEN res.out = "collision" /\ res.rest = n2.rest /\ disk = pre /\ ~res.wrote
            ELSE res.out = "renamed" /\ n2.val \in StepsOf(After)

\* rm was given a valid step name that is in no sequence
RmUnknown ==
    /\ cmd.op = "rm"
    /\ normalize_step_name(cmd.step).ok
    /\ normalize_step_name(cmd.step).val \notin Known

\* C12 as stated: a step not found in reassign, rename and rm, and a new
\* name already owned in rename, are asked for once more before the
\* operation gives up.
C12_Stated == SecondStep /\ SecondName /\ (RmUnknown => Asked)

\* C12: in reassign and rename a step that is not found, and in rename a new
\* name that is owned, is asked for exactly once more; a second failure ends
\* the operation with nothing written. rm asks nothing: a step that is not
\* found ends it at once, with nothing written.
C12_OneRetry ==
    /\ SecondStep
    /\ SecondName
    /\ RmUnknown => res.out = "not_found" /\ ~Asked /\ disk = pre /\ ~res.wrote

\* rename met an owned new name twice and gave up
C12_Witness ==
    /\ cmd.op = "rename"
    /\ res.out = "collision"
    /\ Len(cmd.script) - Len(res.rest) = 1
    /\ StepsOf(Before) # { }

\* The old and the new name a rename that went through worked with: each
\* the argument, or the line asked for in its place
Renamed ==
    LET p1 == ResolveStep(cmd.step, cmd.script)
        p2 == IF p1.val \in Known THEN p1 ELSE prompt_valid_step_name(p1.rest)
        n1 == ResolveStep(cmd.seq, p2.rest)
        n2 == IF n1.val \notin Known THEN n1 ELSE prompt_valid_step_name(n1.rest)
    IN  [ old |-> p2.val, first |-> n1.val, new |-> n2.val ]

\* A rename writes only when the new name is in no sequence; the new name
\* then is in the sequence that held the old one, and only there, the old
\* name is in none, and no other list changes
RenameMoves ==
    (cmd.op = "rename" /\ res.wrote) =>
      LET r    == Renamed
          b    == Before
          a    == After
          held == Owners(b, r.old)
      IN  /\ res.out = "renamed"
          /\ r.new \notin StepsOf(b)
          /\ Cardinality(held) = 1
          /\ Owners(a, r.new) = held
          /\ Owners(a, r.old) = { }
          /\ DOMAIN a = DOMAIN b
          /\ \A k \in DOMAIN b :
               Range(a[k]) =
                 IF k \in held THEN (Range(b[k]) \ { r.old }) \cup { r.new }
                 ELSE Range(b[k])
          /\ \A k \in DOMAIN b \ held : a[k] = b[k]

\* C13 as stated: a rename that goes through has the effect above, and a
\* rename whose new name is in a sequence ends as a collision with nothing
\* written.
C13_Stated ==
    /\ RenameMoves
    /\ (cmd.op = "rename" /\ res.out \in { "renamed", "collision" }
          /\ Renamed.first \in Known)
         => res.out = "collision" /\ ~res.wrote

\* C13: a rename that goes through has the effect above; a new name that is
\* in a sequence (the old name itself too) is asked for once more, and the
\* rename ends as a collision with nothing written only when the second one
\* is in a sequence as well; otherwise the step gets the second name.
C13_Rename == RenameMoves /\ SecondName

\* rename was given an owned new name, asked again, and renamed the step to
\* the second name, in a list with another step
C13_Witness ==
    /\ cmd.op = "rename"
    /\ res.out = "renamed"
    /\ Renamed.first \in Known
    /\ Renamed.new # Renamed.first
    /\ \E k \in DOMAIN After : Len(After[k]) = 2

\* C14: gc drops the sequences whose list is empty and no other, writes
\* only when it dropped one, and leaves a stored document without an empty
\* list.
C14_Gc ==
    cmd.op = "gc" =>
      /\ DOMAIN After = { k \in DOMAIN Before : Before[k] # << >> }
      /\ \A k \in DOMAIN After : After[k] = Before[k]
      /\ res.wrote <=> \E k \in DOMAIN Before : Before[k] = << >>
      /\ ~res.wrote => disk = pre
      /\ \A k \in DOMAIN After : After[k] # << >>

\* gc dropped an empty sequence and kept one with steps
C14_Witness ==
    /\ cmd.op = "gc"
    /\ res.wrote
    /\ After # EmptyMap
    /\ DOMAIN After # DOMAIN Before

\* The key of a token list: the tokens in upper case, a comma between them
RECURSIVE KeyOf(_)
KeyOf(tokens) ==
    IF Len(tokens) = 1 THEN StrUpper(tokens[1])
    ELSE StrUpper(tokens[1]) \o << "," >> \o KeyOf(Tail(tokens))

\* C15: whatever the separators between the tokens (commas and whitespace,
\* at least one) and whatever the case of the letters,
\* canonicalize_sequence returns the tokens in upper case joined by single
\* commas; canonicalizing that key returns it unchanged.
C15_SeparatorIndependence ==
    /\ canon.stage \in { "once", "twice" } =>
         canon.once = [ ok |-> TRUE, val |-> KeyOf(canon.tokens), err |-> "" ]
    /\ canon.stage = "twice" => canon.twice = canon.once

\* Two tokens not in upper case, whitespace and a comma between them, were
\* canonicalized, and the key once more
C15_Witness ==
    /\ canon.stage = "twice"
    /\ Len(canon.tokens) = 2
    /\ canon.raw # canon.once.val
    /\ \E i \in DOMAIN canon.raw : canon.raw[i] = " "
    /\ \E i \in DOMAIN canon.raw : canon.raw[i] = ","
    /\ \E i \in DOMAIN canon.raw : canon.raw[i] \in Lower

\* The answer counts as a yes
IsYes(line) == StrLower(Strip(line)) \in { << "y" >>, << "y", "e", "s" >> }

\* C16: an rm whose first confirmation is declined writes nothing; once the
\* removal is confirmed, or with --yes, the step is removed and the document
\* written whatever the second answer: a list that became empty goes with
\* its key under --yes or a second yes, and otherwise stays, empty.
C16_Remove ==
    (cmd.op = "rm" /\ normalize_step_name(cmd.step).ok
       /\ normalize_step_name(cmd.step).val \in Known) =>
      LET step == normalize_step_name(cmd.step).val
          k    == CHOOSE x \in DOMAIN Before : InList(step, Before[x])
          lst  == SelectSeq(Before[k], LAMBDA x : x # step)
          rest == [ x \in DOMAIN Before \ { k } |-> Before[x] ]
          ans  == cmd.script
      IN  /\ (~cmd.yes /\ ans # << >> /\ ~IsYes(ans[1])) =>
                res.out = "cancelled" /\ ~res.wrote /\ disk = pre
          /\ (cmd.yes \/ (ans # << >> /\ IsYes(ans[1]))) =>
                IF lst # << >>
                THEN res.wrote /\ After = MapSet(rest, k, lst)
                ELSE IF cmd.yes THEN res.wrote /\ After = rest
                ELSE Len(ans) >= 2 =>
                       /\ res.wrote
                       /\ After = IF IsYes(ans[2]) THEN rest ELSE MapSet(rest, k, << >>)

\* rm without --yes, a yes and then a no: the step is gone, its empty list
\* stays
C16_Witness ==
    /\ cmd.op = "rm"
    /\ ~cmd.yes
    /\ res.wrote
    /\ Len(cmd.script) = 2
    /\ ~IsYes(cmd.script[2])
    /\ \E k \in DOMAIN After : After[k] = << >> /\ Before[k] # << >>

\* a comes before b in the order of str: at the first place where they
\* differ a has the smaller character, or a ends there
Precedes(a, b) ==
    \E n \in 0 .. Len(a) :
      /\ n <= Len(b)
      /\ \A i \in 1 .. n : a[i] = b[i]
      /\ \/ n = Len(a) /\ n < Len(b)
         \/ n < Len(a) /\ n < Len(b) /\ Ord[a[n + 1]] < Ord[b[n + 1]]

\* C17: from the empty document, whatever operations ran, every list of the
\* stored document is in ascending order, so no step is in it twice.
C17_Sorted ==
    \A k \in DOMAIN After :
      \A i, j \in DOMAIN After[k] : i < j => Precedes(After[k][i], After[k][j])

\* add put a new step in front of the one that was in the list
C17_Witness ==
    /\ cmd.op = "add"
    /\ res.wrote
    /\ \E k \in DOMAIN After : Len(After[k]) >= 2 /\ After[k][1] \notin StepsOf(Before)

\* C18: lint, run on any document the operations left from the empty one,
\* finds no error: every key is the canonical form of itself, with tokens of
\* the allow-list, every step name is the normal form of itself, and no step
\* is under two keys; empty lists may be there.
C18_LintClean ==
    cmd.op = "lint" =>
      /\ res.out = "lint_ok"
      /\ disk = pre
      /\ \A k \in DOMAIN After :
           canonicalize_sequence(k) = [ ok |-> TRUE, val |-> k, err |-> "" ]
      /\ \A s \in StepsOf(After) :
           /\ StepNameRe(s)
           /\ normalize_step_name(s) = [ ok |-> TRUE, val |-> s, err |-> "" ]
      /\ \A k1, k2 \in DOMAIN After :
           k1 # k2 => Range(After[k1]) \cap Range(After[k2]) = { }

\* lint ran on a document with two steps and an empty list, and found no
\* error
C18_Witness ==
    /\ cmd.op = "lint"
    /\ res.out = "lint_ok"
    /\ Cardinality(StepsOf(After)) >= 2
    /\ \E k \in DOMAIN After : After[k] = << >>

\* The writer has replaced the document and ended
Saved(w) == proc[w].pc = "done" /\ proc[w].ino = w

\* C19: with two writers interleaved on the storage path, each one loading,
\* computing and replacing once, no document that was ever at the path has a
\* step under two keys, and the path holds one of these documents.
C19_PathUnique ==
    /\ \A d \in committed : \A s \in StepsOf(d.map) : Cardinality(Owners(d.map, s)) <= 1
    /\ Parse(PathText).ok => Parse(PathText).val \in committed

\* A lost update: both writers added a step and ended with the document
\* replaced, and the path holds the document of one of them, without the
\* step of the other
C19_Witness ==
    \E w1, w2 \in Writers :
      /\ w1 # w2
      /\ Saved(w1)
      /\ Saved(w2)
      /\ Parse(PathText) = [ ok |-> TRUE, val |-> proc[w2].db ]
      /\ StepsOf(proc[w1].db.map) # { }
      /\ StepsOf(proc[w2].db.map) # { }
      /\ StepsOf(proc[w1].db.map) \cap StepsOf(proc[w2].db.map) = { }

\* The steps whose set of owning sequences the last run changed
Moved ==
    { s \in StepsOf(Before) \cup StepsOf(After) : Owners(Before, s) # Owners(After, s) }

\* The number of entries in all lists of m
RECURSIVE Total(_)
Total(m) ==
    IF DOMAIN m = { } THEN 0
    ELSE LET k == CHOOSE x \in DOMAIN m : TRUE
         IN  Len(m[k]) + Total(MapDel(m, k))

\* C20: a run that writes changes the owner of one step only. add brings
\* one step that was in no sequence and moves no other; reassign and rename
\* keep the number of steps, reassign moving at most one step between
\* sequences and rename putting the new name where the old one was; rm takes
\* out the named step and no other; gc moves no step; list, show and lint
\* leave the file as it was. The version is the same after as before.
C20_Frame ==
    /\ load_db(disk).version = load_db(pre).version
    /\ ~res.wrote => disk = pre
    /\ (res.wrote \/ cmd.op = "gc") =>
         LET b  == Before
             a  == After
             mv == Moved
         IN  /\ cmd.op = "add" =>
                  /\ Total(a) = Total(b) + 1
                  /\ \E s \in StepsOf(a) \ StepsOf(b) : mv = { s }
             /\ cmd.op = "reassign" =>
                  /\ Total(a) = Total(b)
                  /\ StepsOf(a) = StepsOf(b)
                  /\ Cardinality(mv) <= 1
             /\ cmd.op = "rename" =>
                  /\ Total(a) = Total(b)
                  /\ \E o \in StepsOf(b) : \E n \in StepsOf(a) :
                       /\ mv = { o, n }
                       /\ o # n
                       /\ Owners(a, n) = Owners(b, o)
                       /\ Owners(a, o) = { }
                       /\ Owners(b, n) = { }
             /\ cmd.op = "rm" =>
                  /\ Total(a) = Total(b) - 1
                  /\ mv = { normalize_step_name(cmd.step).val }
                  /\ StepsOf(a) = StepsOf(b) \ mv
             /\ cmd.op = "gc" => mv = { }
    /\ cmd.op \in { "list", "show", "lint" } => ~res.wrote

\* A rename has written a document in which another step kept its sequence
C20_Witness ==
    /\ cmd.op = "rename"
    /\ res.wrote
    /\ Cardinality(DOMAIN Before) >= 2
    /\ \E s \in StepsOf(Before) \ Moved : Owners(After, s) = Owners(Before, s)
    /\ Moved # { }

=============================================================================
